---- MODULE Spec2Model ----
(***************************************************************************)
(* Model of BaseVectorStore (src/base/base_vector_store.py): the schema    *)
(* and index synthesis, the collection manager talking to the Milvus       *)
(* client, and the conversion of documents to storage records and of       *)
(* search hits back to documents.                                          *)
(*                                                                         *)
(* Python values are modelled as follows.                                  *)
(*   - a str that the code inspects character by character is a sequence   *)
(*     of one-character strings; any other str is a TLA+ string;           *)
(*   - an Optional value is a record [isNone, ...];                        *)
(*   - a dict is a function from its keys to its values;                   *)
(*   - a list is a sequence; Python index i is TLA+ index i + 1;           *)
(*   - the outcome of a call is a record [raised, msg, returned, value]:   *)
(*     raised is the exception type ("none" when the call returns), msg    *)
(*     names the raise statement, returned says whether a value came back. *)
(***************************************************************************)
EXTENDS Integers, Sequences, FiniteSets, TLC

VARIABLES
    cfg,        \* the attributes set by __init__ (lines 47-50)
    existing,   \* storage engine: the collections that exist, by name, each
                \* with its partitions and its description
    call,       \* the operation invoked last, with its arguments
    ret,        \* its outcome
    log,        \* the client calls it issued, in order
    batch,      \* the caller's list of documents
    hits,       \* the caller's list of search hits
    uuidNext,   \* how many identifiers uuid.uuid4() has handed out
    models,     \* the embedding model objects the callers own, by instance
    threads,    \* the callers of _embed_texts: where each is in the method
    lock        \* the callers' own discipline: whether they serialize their
                \* calls on an instance, and who holds each instance

vars == <<cfg, existing, call, ret, log, batch, hits, uuidNext, models, threads, lock>>

----------------------------------------------------------------------------
(* Bounds of the model *)

MaxDims == 2        \* vector dimensions range over 1..MaxDims
MaxBatch == 2       \* documents / hits per batch
MaxUuid == 4        \* identifiers uuid4 may hand out before the model stops

----------------------------------------------------------------------------
(* Python helpers *)

Py(seq, i) == seq[i + 1]

\* "none" outcome of a call that returned value v
Returned(v) == [raised |-> "none", msg |-> "", returned |-> TRUE, value |-> v]

\* outcome of a call that raised: nothing is returned
Raised(type, m) == [raised |-> type, msg |-> m, returned |-> FALSE, value |-> <<>>]

\* str.endswith
EndsWith(s, suffix) ==
    /\ Len(s) >= Len(suffix)
    /\ SubSeq(s, Len(s) - Len(suffix) + 1, Len(s)) = suffix

NodeSuffix == <<"N", "o", "d", "e">>
TextNodeType == <<"T", "e", "x", "t">> \o NodeSuffix
ImageNodeType == <<"I", "m", "a", "g", "e">> \o NodeSuffix
DocumentType == <<"D", "o", "c", "u", "m", "e", "n", "t">>
NodesType == NodeSuffix \o <<"s">>

\* Optional[dict]
NoneDict == [isNone |-> TRUE, d |-> <<>>]
SomeDict(d) == [isNone |-> FALSE, d |-> d]

----------------------------------------------------------------------------
(* Field names *)

\* list(FundamentalField.model_fields.keys()): the primary key, the dense
\* vector, the sparse vector, the document type discriminator
default_keys == <<"id_", "embedding", "sparse_embedding", "type_">>

\* list(TextNode.model_fields.keys())
base_node_fields ==
    << "id_", "embedding", "metadata", "excluded_embed_metadata_keys",
       "excluded_llm_metadata_keys", "relationships", "metadata_template",
       "metadata_separator", "text", "mimetype", "start_char_idx",
       "end_char_idx", "metadata_seperator", "text_template" >>

\* list(Document.model_fields.keys())
document_fields == <<"id", "metadata", "page_content", "type">>

----------------------------------------------------------------------------
(* _get_datatype *)

GetDatatypeLenient(datatype) ==
    IF datatype = "FLOAT16_VECTOR" THEN Returned("DataType.FLOAT16_VECTOR")
    ELSE IF datatype = "BFLOAT16_VECTOR" THEN Returned("DataType.BFLOAT16_VECTOR")
    ELSE Returned("DataType.FLOAT_VECTOR")

_get_datatype(datatype) ==
    IF datatype = "FLOAT_VECTOR" THEN Returned("DataType.FLOAT_VECTOR")
    ELSE IF datatype = "FLOAT16_VECTOR" THEN Returned("DataType.FLOAT16_VECTOR")
    ELSE IF datatype = "BFLOAT16_VECTOR" THEN Returned("DataType.BFLOAT16_VECTOR")
    ELSE Raised("ValueError", "not compatible with dense vector field")

----------------------------------------------------------------------------
(* _setup_collection_schema *)

\* the keyword arguments of add_field that the call leaves out
NoKw ==
    [is_primary |-> FALSE, dim |-> 0, max_length |-> 0,
     element_type |-> "", max_capacity |-> 0, nullable |-> FALSE]

\* schema.add_field(field_name, datatype, **kw)
add_field(schema, field_name, datatype, kw) ==
    Append(schema,
           [field_name |-> field_name, datatype |-> datatype,
            is_primary |-> kw.is_primary, dim |-> kw.dim,
            max_length |-> kw.max_length, element_type |-> kw.element_type,
            max_capacity |-> kw.max_capacity, nullable |-> kw.nullable])

Varchar(n) == [NoKw EXCEPT !.max_length = n]

VarcharArray ==
    [NoKw EXCEPT !.element_type = "DataType.VARCHAR",
                 !.max_capacity = 16, !.max_length = 64]

NullableInt64 == [NoKw EXCEPT !.max_length = 8, !.nullable = TRUE]

\* lines 270-288: the fields every collection has
DefaultFieldsSparseFirst(dense_datatype, vector_dims, enable_sparse) ==
    LET s0 == <<>>
        s1 == add_field(s0, Py(default_keys, 0), "DataType.VARCHAR",
                        [Varchar(64) EXCEPT !.is_primary = TRUE])
        s2 == IF enable_sparse
              THEN add_field(s1, Py(default_keys, 2),
                             "DataType.SPARSE_FLOAT_VECTOR", NoKw)
              ELSE s1
        s3 == add_field(s2, Py(default_keys, 1), dense_datatype,
                        [NoKw EXCEPT !.dim = vector_dims])
    IN  add_field(s3, Py(default_keys, 3), "DataType.VARCHAR", Varchar(16))

DefaultFields(dense_datatype, vector_dims, enable_sparse) ==
    LET s0 == <<>>
        s1 == add_field(s0, Py(default_keys, 0), "DataType.VARCHAR",
                        [Varchar(64) EXCEPT !.is_primary = TRUE])
        s2 == add_field(s1, Py(default_keys, 1), dense_datatype,
                        [NoKw EXCEPT !.dim = vector_dims])
        s3 == IF enable_sparse
              THEN add_field(s2, Py(default_keys, 2),
                             "DataType.SPARSE_FLOAT_VECTOR", NoKw)
              ELSE s2
    IN  add_field(s3, Py(default_keys, 3), "DataType.VARCHAR", Varchar(16))

\* lines 291-355: the fields of BaseNode and ImageNode collections
NodeFields(schema) ==
    LET f(i) == Py(base_node_fields, i)
        s2 == add_field(schema, f(2), "DataType.JSON", NoKw)
        s3 == add_field(s2, f(3), "DataType.ARRAY", VarcharArray)
        s4 == add_field(s3, f(4), "DataType.ARRAY", VarcharArray)
        s5 == add_field(s4, f(5), "DataType.JSON", NoKw)
        s6 == add_field(s5, f(6), "DataType.VARCHAR", Varchar(32))
        s7 == add_field(s6, f(7), "DataType.VARCHAR", Varchar(8))
        s8 == add_field(s7, f(8), "DataType.VARCHAR", Varchar(16384))
        s9 == add_field(s8, f(9), "DataType.VARCHAR", Varchar(16))
        s10 == add_field(s9, f(10), "DataType.INT64", NullableInt64)
        s11 == add_field(s10, f(11), "DataType.INT64", NullableInt64)
        s12 == add_field(s11, f(12), "DataType.VARCHAR", Varchar(8))
    IN  add_field(s12, f(13), "DataType.VARCHAR", Varchar(64))

\* lines 357-366: the fields of Document collections
PlainFields(schema) ==
    LET s1 == add_field(schema, Py(document_fields, 1), "DataType.JSON", NoKw)
    IN  add_field(s1, Py(document_fields, 2), "DataType.VARCHAR", Varchar(16384))

_setup_collection_schema(document_type, vector_dims, dense_datatype, enable_sparse) ==
    LET dt == _get_datatype(dense_datatype)
    IN  IF dt.raised # "none" THEN dt
        ELSE LET base == DefaultFields(dt.value, vector_dims, enable_sparse)
             IN  IF EndsWith(document_type, NodeSuffix)
                 THEN Returned(NodeFields(base))
                 ELSE IF document_type = DocumentType
                 THEN Returned(PlainFields(base))
                 ELSE Returned(base)

----------------------------------------------------------------------------
(* _setup_collection_index *)

\* nlist 128; drop_ratio_build 0.2, written in hundredths
DefaultDenseParams == [nlist |-> 128]
DefaultSparseParams == [drop_ratio_build |-> 20]

\* index_params.add_index(field_name, index_name, index_type, metric_type, params)
add_index(index_params, field_name, index_name, index_type, metric_type, params) ==
    Append(index_params,
           [field_name |-> field_name, index_name |-> index_name,
            index_type |-> index_type, metric_type |-> metric_type,
            params |-> params])

SetupCollectionIndexSharedMetric(index_algo, dense_search_metric, params, enable_sparse, sparse_index_type, sparse_params) ==
    LET p == IF params.isNone THEN SomeDict(DefaultDenseParams) ELSE params
        sp == IF sparse_params.isNone THEN SomeDict(DefaultSparseParams)
              ELSE sparse_params
        i1 == add_index(<<>>, Py(default_keys, 0), "unique_id", "", "", NoneDict)
        i2 == add_index(i1, Py(default_keys, 1), "dense_representation",
                        index_algo, dense_search_metric, p)
    IN  IF enable_sparse
        THEN add_index(i2, Py(default_keys, 2), "sparse_representation",
                       sparse_index_type, dense_search_metric, sp)
        ELSE i2

_setup_collection_index(index_algo, dense_search_metric, params, enable_sparse, sparse_index_type, sparse_params) ==
    LET p == IF params.isNone THEN SomeDict(DefaultDenseParams) ELSE params
        sp == IF sparse_params.isNone THEN SomeDict(DefaultSparseParams)
              ELSE sparse_params
        i1 == add_index(<<>>, Py(default_keys, 0), "unique_id", "", "", NoneDict)
        i2 == add_index(i1, Py(default_keys, 1), "dense_representation",
                        index_algo, dense_search_metric, p)
    IN  IF enable_sparse
        THEN add_index(i2, Py(default_keys, 2), "sparse_representation",
                       sparse_index_type, "IP", sp)
        ELSE i2


----------------------------------------------------------------------------
(* Values found in a collection description *)

PyInt(n) == [t |-> "int", n |-> n]
PyStr(n) == [t |-> "str", n |-> n]       \* the decimal text of n
PyFloat(n) == [t |-> "float", n |-> n]   \* n + 0.5
PyNone == [t |-> "none", n |-> 0]

\* isinstance(v, int)
IsInt(v) == v.t = "int"

\* dict.get(key): None when the key is absent
Get(d, key) == IF key \in DOMAIN d THEN d[key] ELSE PyNone

----------------------------------------------------------------------------
(* The Milvus client the class inherits from (MilvusClient) *)

\* one call on the client, as the log records it
ClientCall(method, collection_name, partition_name, schema, index_params) ==
    [method |-> method, collection_name |-> collection_name,
     partition_name |-> partition_name, schema |-> schema,
     index_params |-> index_params]

\* the error the client raises when the engine rejects a call
EngineError == Raised("MilvusException", "engine")

\* how the engine describes a field of a schema it was given
FieldDescription(f) ==
    [name |-> f.field_name,
     params |-> IF f.dim > 0 THEN [dim |-> PyInt(f.dim)]
                ELSE IF f.max_length > 0 THEN [max_length |-> PyInt(f.max_length)]
                ELSE <<>>]

SchemaDescription(collection_name, schema) ==
    [collection_name |-> collection_name,
     fields |-> [i \in 1 .. Len(schema) |-> FieldDescription(schema[i])]]

\* self.create_collection(collection_name, schema, index_params): the engine
\* rejects a name that exists, and any call it cannot serve (accept = FALSE)
engine_create_collection(ex, collection_name, schema, accept) ==
    IF collection_name \in DOMAIN ex \/ ~accept
    THEN [out |-> EngineError, existing |-> ex]
    ELSE [out |-> Returned(<<>>),
          existing |->
              [n \in DOMAIN ex \cup {collection_name} |->
                  IF n = collection_name
                  THEN [partitions |-> {"_default"},
                        description |-> SchemaDescription(collection_name, schema)]
                  ELSE ex[n]]]

\* self.create_partition(collection_name, partition_name)
engine_create_partition(ex, collection_name, partition_name, accept) ==
    IF collection_name \notin DOMAIN ex \/ ~accept
    THEN [out |-> EngineError, existing |-> ex]
    ELSE [out |-> Returned(<<>>),
          existing |-> [ex EXCEPT ![collection_name].partitions =
                                      @ \cup {partition_name}]]

\* self.get_load_state(collection_name): the state of the whole collection
engine_get_load_state(ex, collection_name, accept) ==
    IF ~accept THEN EngineError
    ELSE Returned([state |-> IF collection_name \in DOMAIN ex
                             THEN "Loaded" ELSE "NotExist"])

\* self.describe_collection(collection_name)
engine_describe_collection(ex, collection_name, accept) ==
    IF collection_name \notin DOMAIN ex \/ ~accept
    THEN EngineError
    ELSE Returned(ex[collection_name].description)

----------------------------------------------------------------------------
(* _create_collection *)

\* What one invocation does: [ret, log, existing].  accept1 and accept2 are the
\* engine's answers to the create-collection and the get-load-state call.
CreateCollectionIgnoringReject(c, ex, document_type, dimension_nums, enable_sparse, accept1, accept2) ==
    LET schema == _setup_collection_schema(document_type, dimension_nums,
                                           c.dense_datatype, enable_sparse)
        index_params == _setup_collection_index(c.index_algo,
                            c.dense_search_metrics, NoneDict, enable_sparse,
                            "SPARSE_INVERTED_INDEX", NoneDict)
        l1 == <<ClientCall("create_schema", "", "", <<>>, <<>>)>>
        l2 == Append(l1, ClientCall("prepare_index_params", "", "", <<>>, <<>>))
        l3 == Append(l2, ClientCall("create_collection", c.collection_name, "",
                                    schema.value, index_params))
        l4 == Append(l3, ClientCall("get_load_state", c.collection_name, "",
                                    <<>>, <<>>))
        created == engine_create_collection(ex, c.collection_name,
                                            schema.value, accept1)
    IN  IF schema.raised # "none"
        THEN [ret |-> schema, log |-> l1, existing |-> ex]
        ELSE [ret |-> engine_get_load_state(created.existing,
                                            c.collection_name, accept2),
              log |-> l4, existing |-> created.existing]

CreateCollectionRun(c, ex, document_type, dimension_nums, enable_sparse, accept1, accept2) ==
    LET schema == _setup_collection_schema(document_type, dimension_nums,
                                           c.dense_datatype, enable_sparse)
        index_params == _setup_collection_index(c.index_algo,
                            c.dense_search_metrics, NoneDict, enable_sparse,
                            "SPARSE_INVERTED_INDEX", NoneDict)
        l1 == <<ClientCall("create_schema", "", "", <<>>, <<>>)>>
        l2 == Append(l1, ClientCall("prepare_index_params", "", "", <<>>, <<>>))
        l3 == Append(l2, ClientCall("create_collection", c.collection_name, "",
                                    schema.value, index_params))
        l4 == Append(l3, ClientCall("get_load_state", c.collection_name, "",
                                    <<>>, <<>>))
        created == engine_create_collection(ex, c.collection_name,
                                            schema.value, accept1)
    IN  IF schema.raised # "none"
        THEN [ret |-> schema, log |-> l1, existing |-> ex]
        ELSE IF created.out.raised # "none"
        THEN [ret |-> created.out, log |-> l3, existing |-> created.existing]
        ELSE [ret |-> engine_get_load_state(created.existing,
                                            c.collection_name, accept2),
              log |-> l4, existing |-> created.existing]

----------------------------------------------------------------------------
(* _create_partition *)

CreatePartitionNoAssert(c, ex, partition_name, accept1, accept2) ==
    LET l1 == <<ClientCall("create_partition", c.collection_name,
                           partition_name, <<>>, <<>>)>>
        l2 == Append(l1, ClientCall("get_load_state", c.collection_name, "",
                                    <<>>, <<>>))
        created == engine_create_partition(ex, c.collection_name,
                                           partition_name, accept1)
    IN  IF created.out.raised # "none"
        THEN [ret |-> created.out, log |-> l1, existing |-> created.existing]
        ELSE [ret |-> engine_get_load_state(created.existing,
                                            c.collection_name, accept2),
              log |-> l2, existing |-> created.existing]

\* `assert partition_name`: the empty string is false
CreatePartitionRun(c, ex, partition_name, accept1, accept2) ==
    LET l1 == <<ClientCall("create_partition", c.collection_name,
                           partition_name, <<>>, <<>>)>>
        l2 == Append(l1, ClientCall("get_load_state", c.collection_name, "",
                                    <<>>, <<>>))
        created == engine_create_partition(ex, c.collection_name,
                                           partition_name, accept1)
    IN  IF partition_name = ""
        THEN [ret |-> Raised("AssertionError", "Collection name must be a string"),
              log |-> <<>>, existing |-> ex]
        ELSE IF created.out.raised # "none"
        THEN [ret |-> created.out, log |-> l1, existing |-> created.existing]
        ELSE [ret |-> engine_get_load_state(created.existing,
                                            c.collection_name, accept2),
              log |-> l2, existing |-> created.existing]

----------------------------------------------------------------------------
(* _verify_collection_dimension *)

\* [stats for stats in collection_stats if dict(stats).get("name") == key]
RECURSIVE FilterByName(_, _)
FilterByName(fields, key) ==
    IF fields = <<>> THEN <<>>
    ELSE LET rest == FilterByName(Tail(fields), key)
         IN  IF "name" \in DOMAIN Head(fields) /\ Head(fields).name = key
             THEN <<Head(fields)>> \o rest
             ELSE rest

VerifyStatsCoercing(stats, embedding_dimension) ==
    IF "fields" \notin DOMAIN stats
    THEN Raised("ValueError", "Fields not existed in collection")
    ELSE LET collection_stats == FilterByName(stats.fields, Py(default_keys, 1))
         IN  IF Len(collection_stats) = 0
             THEN Raised("ValueError", "Empty embedding field!")
             ELSE IF "params" \notin DOMAIN Py(collection_stats, 0)
             THEN Raised("ValueError", "Empty params field!")
             ELSE LET collection_dims == Get(Py(collection_stats, 0).params, "dim")
                  IN  IF collection_dims = PyNone
                      THEN Raised("ValueError", "Empty dim field!")
                      ELSE IF embedding_dimension # collection_dims.n
                      THEN Raised("ValueError", "Embed dimension is differ")
                      ELSE Returned(<<>>)

VerifyStatsTruncating(stats, embedding_dimension) ==
    IF "fields" \notin DOMAIN stats
    THEN Raised("ValueError", "Fields not existed in collection")
    ELSE LET collection_stats == FilterByName(stats.fields, Py(default_keys, 1))
         IN  IF Len(collection_stats) = 0
             THEN Raised("ValueError", "Empty embedding field!")
             ELSE IF "params" \notin DOMAIN Py(collection_stats, 0)
             THEN Raised("ValueError", "Empty params field!")
             ELSE LET collection_dims == Get(Py(collection_stats, 0).params, "dim")
                  IN  IF collection_dims = PyNone
                      THEN Raised("ValueError", "Empty dim field!")
                      ELSE IF ~IsInt(collection_dims)
                      THEN Raised("ValueError", "Collection dims must be integer!")
                      ELSE IF embedding_dimension < collection_dims.n
                      THEN Raised("ValueError", "Embed dimension is differ")
                      ELSE Returned(<<>>)

\* the checks on the description the engine returned (lines 532-554)
VerifyStats(stats, embedding_dimension) ==
    IF "fields" \notin DOMAIN stats
    THEN Raised("ValueError", "Fields not existed in collection")
    ELSE LET collection_stats == FilterByName(stats.fields, Py(default_keys, 1))
         IN  IF Len(collection_stats) = 0
             THEN Raised("ValueError", "Empty embedding field!")
             ELSE IF "params" \notin DOMAIN Py(collection_stats, 0)
             THEN Raised("ValueError", "Empty params field!")
             ELSE LET collection_dims == Get(Py(collection_stats, 0).params, "dim")
                  IN  IF collection_dims = PyNone
                      THEN Raised("ValueError", "Empty dim field!")
                      ELSE IF ~IsInt(collection_dims)
                      THEN Raised("ValueError", "Collection dims must be integer!")
                      ELSE IF embedding_dimension # collection_dims.n
                      THEN Raised("ValueError", "Embed dimension is differ")
                      ELSE Returned(<<>>)

VerifyCollectionDimensionRun(ex, collection_name, embedding_dimension, accept) ==
    LET described == engine_describe_collection(ex, collection_name, accept)
        l1 == <<ClientCall("describe_collection", collection_name, "", <<>>, <<>>)>>
    IN  IF described.raised # "none"
        THEN [ret |-> described, log |-> l1, existing |-> ex]
        ELSE [ret |-> VerifyStats(described.value, embedding_dimension),
              log |-> l1, existing |-> ex]

----------------------------------------------------------------------------
(* Inputs of the schema and index builders and of the collection manager *)

CollectionName == "milvus_vector_store"

RecognizedDatatypes == {"FLOAT_VECTOR", "FLOAT16_VECTOR", "BFLOAT16_VECTOR"}
DatatypeNames ==
    RecognizedDatatypes \cup {"SPARSE_FLOAT_VECTOR", "float_vector"}

DocumentTypes == {TextNodeType, ImageNodeType, DocumentType, NodesType}
Dims == 1 .. MaxDims

IndexAlgos == {"FLAT", "IVF_FLAT", "IVF_SQ8", "IVF_PQ", "HNSW", "SCANN"}
Metrics == {"COSINE", "L2", "IP", "HAMMING", "JACCARD"}
SparseIndexTypes == {"SPARSE_INVERTED_INDEX", "SPARSE_WAND"}
DenseParams == {NoneDict, SomeDict([nlist |-> 64])}
SparseParams == {NoneDict, SomeDict([drop_ratio_build |-> 10])}

PartitionNames == {"", "docs_2024"}

DefaultConfig ==
    [collection_name |-> CollectionName, dense_search_metrics |-> "COSINE",
     index_algo |-> "IVF_FLAT", dense_datatype |-> "FLOAT_VECTOR"]

\* the constructor's arguments (it validates none of them)
Configs ==
    [collection_name : {CollectionName},
     dense_search_metrics : {"COSINE", "L2"},
     index_algo : {"IVF_FLAT"},
     dense_datatype : {"FLOAT_VECTOR", "INT8_VECTOR"}]

\* Descriptions a collection made by another program may have: well-formed
\* and malformed ones.
DimValues ==
    {PyInt(d) : d \in Dims} \cup {PyStr(1), PyFloat(1), PyNone}
PkDescription ==
    [name |-> Py(default_keys, 0), params |-> [max_length |-> PyInt(64)]]
DenseDescriptions ==
    {[name |-> Py(default_keys, 1)], [name |-> Py(default_keys, 1), params |-> <<>>]}
    \cup {[name |-> Py(default_keys, 1), params |-> [dim |-> v]] : v \in DimValues}
FieldLists ==
    {<<>>, <<PkDescription>>}
    \cup {<<e>> : e \in DenseDescriptions}
    \cup {<<PkDescription, e>> : e \in DenseDescriptions}
    \cup {<<e, [name |-> Py(default_keys, 1), params |-> [dim |-> PyInt(1)]]>> :
             e \in DenseDescriptions}
Descriptions ==
    {[collection_name |-> CollectionName]}
    \cup {[collection_name |-> CollectionName, fields |-> fs] : fs \in FieldLists}

----------------------------------------------------------------------------
(* The schema and index builders: SpecBuild *)

InitBuild ==
    /\ cfg = DefaultConfig
    /\ existing = <<>>
    /\ call = [op |-> "__init__"]
    /\ ret = Returned(<<>>)
    /\ log = <<>>
    /\ batch = <<>>
    /\ hits = <<>>
    /\ uuidNext = 0
    /\ models = <<>>
    /\ threads = <<>>
    /\ lock = <<>>

SetupCollectionSchema ==
    \E document_type \in DocumentTypes, vector_dims \in Dims,
       dense_datatype \in DatatypeNames, enable_sparse \in BOOLEAN :
        /\ call' = [op |-> "_setup_collection_schema",
                    document_type |-> document_type, vector_dims |-> vector_dims,
                    dense_datatype |-> dense_datatype,
                    enable_sparse |-> enable_sparse]
        /\ ret' = _setup_collection_schema(document_type, vector_dims,
                                           dense_datatype, enable_sparse)
        /\ log' = <<ClientCall("create_schema", "", "", <<>>, <<>>)>>
        /\ UNCHANGED <<models, threads, lock, cfg, existing, batch, hits, uuidNext>>

SetupCollectionIndex ==
    \E index_algo \in IndexAlgos, dense_search_metric \in Metrics,
       params \in DenseParams, enable_sparse \in BOOLEAN,
       sparse_index_type \in SparseIndexTypes, sparse_params \in SparseParams :
        /\ call' = [op |-> "_setup_collection_index",
                    index_algo |-> index_algo,
                    dense_search_metric |-> dense_search_metric,
                    params |-> params, enable_sparse |-> enable_sparse,
                    sparse_index_type |-> sparse_index_type,
                    sparse_params |-> sparse_params]
        /\ ret' = Returned(_setup_collection_index(index_algo,
                               dense_search_metric, params, enable_sparse,
                               sparse_index_type, sparse_params))
        /\ log' = <<ClientCall("prepare_index_params", "", "", <<>>, <<>>)>>
        /\ UNCHANGED <<models, threads, lock, cfg, existing, batch, hits, uuidNext>>

NextBuild ==
    \/ SetupCollectionSchema
    \/ SetupCollectionIndex

SpecBuild == InitBuild /\ [][NextBuild]_vars

----------------------------------------------------------------------------
(* The collection manager: SpecManager *)

\* The engine holds no collection, or one made earlier by any program.
InitManager ==
    /\ cfg \in Configs
    /\ existing \in
         {<<>>} \cup
         {[n \in {CollectionName} |->
              [partitions |-> {"_default"}, description |-> d]] :
          d \in Descriptions}
    /\ call = [op |-> "__init__"]
    /\ ret = Returned(<<>>)
    /\ log = <<>>
    /\ batch = <<>>
    /\ hits = <<>>
    /\ uuidNext = 0
    /\ models = <<>>
    /\ threads = <<>>
    /\ lock = <<>>

CreateCollection ==
    \E document_type \in {TextNodeType, DocumentType}, dimension_nums \in Dims,
       enable_sparse \in BOOLEAN, accept1 \in BOOLEAN, accept2 \in BOOLEAN :
        LET run == CreateCollectionRun(cfg, existing, document_type,
                       dimension_nums, enable_sparse, accept1, accept2)
        IN  /\ call' = [op |-> "_create_collection",
                        document_type |-> document_type,
                        dimension_nums |-> dimension_nums,
                        enable_sparse |-> enable_sparse,
                        existed |-> cfg.collection_name \in DOMAIN existing,
                        accept1 |-> accept1, accept2 |-> accept2]
            /\ ret' = run.ret
            /\ log' = run.log
            /\ existing' = run.existing
            /\ UNCHANGED <<models, threads, lock, cfg, batch, hits, uuidNext>>

CreatePartition ==
    \E partition_name \in PartitionNames, accept1 \in BOOLEAN, accept2 \in BOOLEAN :
        LET run == CreatePartitionRun(cfg, existing, partition_name,
                                      accept1, accept2)
        IN  /\ call' = [op |-> "_create_partition",
                        partition_name |-> partition_name,
                        existed |-> cfg.collection_name \in DOMAIN existing,
                        accept1 |-> accept1, accept2 |-> accept2]
            /\ ret' = run.ret
            /\ log' = run.log
            /\ existing' = run.existing
            /\ UNCHANGED <<models, threads, lock, cfg, batch, hits, uuidNext>>

VerifyCollectionDimension ==
    \E collection_name \in {CollectionName, "other"}, embedding_dimension \in Dims,
       accept \in BOOLEAN :
        LET run == VerifyCollectionDimensionRun(existing, collection_name,
                       embedding_dimension, accept)
            described == collection_name \in DOMAIN existing /\ accept
        IN  /\ call' = [op |-> "_verify_collection_dimension",
                        collection_name |-> collection_name,
                        embedding_dimension |-> embedding_dimension,
                        described |-> described,
                        stats |-> IF described
                                  THEN existing[collection_name].description
                                  ELSE [collection_name |-> collection_name]]
            /\ ret' = run.ret
            /\ log' = run.log
            /\ existing' = run.existing
            /\ UNCHANGED <<models, threads, lock, cfg, batch, hits, uuidNext>>

NextManager ==
    \/ CreateCollection
    \/ CreatePartition
    \/ VerifyCollectionDimension

SpecManager == InitManager /\ [][NextManager]_vars


----------------------------------------------------------------------------
(* Documents, records and hits *)

\* Optional[str]; str(uuid.uuid4()) is the text "uuid4" with a serial number
Str(s) == [isNone |-> FALSE, s |-> s, serial |-> 0]
NoneStr == [isNone |-> TRUE, s |-> "", serial |-> 0]
Uuid(k) == [isNone |-> FALSE, s |-> "uuid4", serial |-> k]

\* Optional[List[float]]
Vec(v) == [isNone |-> FALSE, v |-> v]
NoneVec == [isNone |-> TRUE, v |-> <<>>]

\* d.get(key) with the None of the value's type
DictGet(d, key, none) == IF key \in DOMAIN d THEN d[key] ELSE none

\* d.update({key: value})
Update(d, key, value) ==
    [k \in DOMAIN d \cup {key} |-> IF k = key THEN value ELSE d[k]]

\* d.pop(key), for a key that is present
Pop(d, key) == [k \in DOMAIN d \ {key} |-> d[k]]

\* isinstance(document, BaseNode)
IsBaseNode(document) == document.cls = "TextNode"

\* whether the object has a dict() method: the pydantic models have, a str
\* has not
HasDict(document) == document.cls # "str"

\* document.dict() of a TextNode, of a langchain Document, and of any other
\* pydantic model: its fields
DictOf(document) ==
    IF document.cls = "TextNode"
    THEN [id_ |-> document.id_, embedding |-> document.embedding,
          metadata |-> document.metadata,
          relationships |-> document.relationships, text |-> document.text]
    ELSE IF document.cls = "Document"
    THEN [id |-> document.id, metadata |-> document.metadata,
          page_content |-> document.page_content, type |-> document.type]
    ELSE [k \in DOMAIN document \ {"cls"} |-> document[k]]

----------------------------------------------------------------------------
(* _convert_upsert_data *)

StripNodeAllMetadata(document) ==
    [document EXCEPT
        !.embedding = NoneVec,
        !.metadata = <<>>,
        !.relationships = [k \in DOMAIN @ |-> [@[k] EXCEPT !.metadata = <<>>]]]

\* lines 163-171: what the loop does to one node, in place
StripNode(document) ==
    [document EXCEPT
        !.embedding = NoneVec,
        !.metadata = IF "file_path" \in DOMAIN @ /\ @.file_path # ""
                     THEN Pop(@, "file_path") ELSE @,
        !.relationships = [k \in DOMAIN @ |-> [@[k] EXCEPT !.metadata = <<>>]]]

\* lines 162-171: the loop from position i on.  Assigning .embedding on a
\* pydantic model without that field (a langchain Document, say) raises
\* ValueError, on a str AttributeError; the nodes before it stay stripped.
RECURSIVE NodeLoop(_, _)
NodeLoop(documents, i) ==
    IF i > Len(documents) THEN [raised |-> "none", documents |-> documents]
    ELSE IF ~IsBaseNode(documents[i])
    THEN [raised |-> IF HasDict(documents[i]) THEN "ValueError"
                     ELSE "AttributeError",
          documents |-> documents]
    ELSE NodeLoop([documents EXCEPT ![i] = StripNode(@)], i + 1)

PlainIdTruthy(document_id, n) ==
    IF document_id.isNone \/ document_id.s = "" THEN Uuid(n + 1) ELSE document_id

\* line 181: document_id if document_id is not None else str(uuid.uuid4()),
\* where n identifiers were handed out before
PlainId(document_id, n) ==
    IF document_id.isNone THEN Uuid(n + 1) ELSE document_id

\* lines 178-185: the loop over the dicts from position i on; acc holds the
\* records made so far, n counts the identifiers handed out
RECURSIVE PlainLoop(_, _, _, _)
PlainLoop(dicts, i, n, acc) ==
    IF i > Len(dicts) THEN [out |-> Returned(acc), uuidNext |-> n]
    ELSE LET d == dicts[i]
             document_id == DictGet(d, "id", NoneStr)
             n1 == IF document_id.isNone THEN n + 1 ELSE n
             updated == Update(Update(d, Py(default_keys, 0),
                                      PlainId(document_id, n)),
                               Py(default_keys, 3), DictGet(d, "type", NoneStr))
         IN  IF "id" \notin DOMAIN updated
             THEN [out |-> Raised("KeyError", "id"), uuidNext |-> n1]
             ELSE IF "type" \notin DOMAIN Pop(updated, "id")
             THEN [out |-> Raised("KeyError", "type"), uuidNext |-> n1]
             ELSE PlainLoop(dicts, i + 1, n1,
                            Append(acc, Pop(Pop(updated, "id"), "type")))

\* [out, documents, uuidNext]: the outcome, the caller's documents after the
\* call, and the identifiers handed out.  Line 176 calls dict() on every
\* document before the loop of lines 178-185 starts.
_convert_upsert_data(documents, n) ==
    IF Len(documents) = 0
    THEN [out |-> Raised("IndexError", "list index out of range"),
          documents |-> documents, uuidNext |-> n]
    ELSE IF IsBaseNode(documents[1])
    THEN LET looped == NodeLoop(documents, 1)
         IN  [out |-> IF looped.raised # "none"
                      THEN Raised(looped.raised, "object has no field embedding")
                      ELSE Returned([i \in 1 .. Len(documents) |->
                                        DictOf(looped.documents[i])]),
              documents |-> looped.documents, uuidNext |-> n]
    ELSE IF \E i \in 1 .. Len(documents) : ~HasDict(documents[i])
    THEN [out |-> Raised("AttributeError", "object has no attribute dict"),
          documents |-> documents, uuidNext |-> n]
    ELSE LET looped == PlainLoop([i \in 1 .. Len(documents) |->
                                     DictOf(documents[i])], 1, n, <<>>)
         IN  [out |-> looped.out, documents |-> documents,
              uuidNext |-> looped.uuidNext]

----------------------------------------------------------------------------
(* _convert_response_to_node_with_score, _convert_response_to_document *)

\* temp.update({default_keys[1]: None, default_keys[2]: None})
NullVectors(entity) ==
    Update(Update(entity, Py(default_keys, 1), NoneVec),
           Py(default_keys, 2), NoneDict)

\* TextNode.from_dict: the fields of the node, defaults for the absent ones,
\* other keys ignored
TextNodeFromDict(data) ==
    [cls |-> "TextNode",
     id_ |-> DictGet(data, "id_", NoneStr),
     embedding |-> DictGet(data, "embedding", NoneVec),
     metadata |-> DictGet(data, "metadata", <<>>),
     relationships |-> DictGet(data, "relationships", <<>>),
     text |-> DictGet(data, "text", "")]

\* Document.parse_obj: page_content is required, other keys are ignored
DocumentParseObj(data) ==
    IF "page_content" \notin DOMAIN data
    THEN Raised("ValidationError", "page_content")
    ELSE Returned([cls |-> "Document",
                   id |-> DictGet(data, "id", NoneStr),
                   metadata |-> DictGet(data, "metadata", <<>>),
                   page_content |-> data.page_content,
                   type |-> Str("Document")])

\* lines 199-212
_convert_response_to_node_with_score(responses, remove_embedding) ==
    LET results == [i \in 1 .. Len(responses) |->
                       IF remove_embedding THEN NullVectors(responses[i].entity)
                       ELSE responses[i].entity]
        text_nodes == [i \in 1 .. Len(responses) |-> TextNodeFromDict(results[i])]
    IN  [out |-> Returned([i \in 1 .. Len(responses) |->
                              [node |-> text_nodes[i],
                               score |-> responses[i].distance]]),
         responses |-> responses]

\* line 232: metadata.setdefault("score", distance)
WithScore(metadata, distance) ==
    IF "score" \in DOMAIN metadata THEN metadata
    ELSE Update(metadata, "score", distance)

\* lines 225-234, from position i on.  dict(response['entity']) copies the
\* entity but not the metadata mapping inside it, so the score is also
\* written into the caller's hit when the hit has metadata.
RECURSIVE DocumentLoop(_, _, _, _)
DocumentLoop(responses, remove_embedding, i, acc) ==
    IF i > Len(responses) THEN [out |-> Returned(acc), responses |-> responses]
    ELSE LET copied == IF remove_embedding THEN NullVectors(responses[i].entity)
                       ELSE responses[i].entity
             scored == WithScore(DictGet(copied, "metadata", <<>>),
                                 responses[i].distance)
             entity == Update(copied, "metadata", scored)
             after == IF "metadata" \in DOMAIN responses[i].entity
                      THEN [responses EXCEPT ![i].entity.metadata = scored]
                      ELSE responses
             parsed == DocumentParseObj(entity)
         IN  IF parsed.raised # "none"
             THEN [out |-> parsed, responses |-> after]
             ELSE DocumentLoop(after, remove_embedding, i + 1,
                               Append(acc, parsed.value))

_convert_response_to_document(responses, remove_embedding) ==
    DocumentLoop(responses, remove_embedding, 1, <<>>)

----------------------------------------------------------------------------
(* Inputs of the record mapper *)

Embedding1 == Vec(<<1, 2>>)

PlainDocuments ==
    {[cls |-> "Document", id |-> id, metadata |-> m, page_content |-> p,
      type |-> Str("Document")] :
        id \in {NoneStr, Str("a"), Str("")},
        m \in {<<>>, [score |-> 9]},
        p \in {"x"}}
    \cup {[cls |-> "Document", id |-> NoneStr, metadata |-> [source |-> "s"],
           page_content |-> "y", type |-> Str("Document")]}

NodeDocuments ==
    {[cls |-> "TextNode", id_ |-> Str("n1"), embedding |-> e, metadata |-> m,
      relationships |-> r, text |-> "x"] :
        e \in {Embedding1},
        m \in {<<>>, [file_path |-> "/tmp/a.txt", source |-> "s"],
               [file_path |-> ""]},
        r \in {<<>>,
               [parent |-> [node_id |-> "n0", metadata |-> [source |-> "s"]]]}}
    \cup {[cls |-> "TextNode", id_ |-> Str("n2"), embedding |-> NoneVec,
           metadata |-> [source |-> "s"], relationships |-> <<>>, text |-> "y"]}

\* objects that are neither a BaseNode nor a langchain Document: a pydantic
\* model of another class that happens to have the fields id and type, and a
\* bare str
OtherDocuments ==
    {[cls |-> "Record", id |-> Str("r1"), type |-> Str("Record"), body |-> "z"],
     [cls |-> "str", value |-> "raw"]}

Documents == PlainDocuments \cup NodeDocuments \cup OtherDocuments

PlainEntities ==
    {[id_ |-> Str("a"), embedding |-> Embedding1, type_ |-> Str("Document"),
      page_content |-> "x"]}
    \cup {[id_ |-> Str("a"), embedding |-> Embedding1, type_ |-> Str("Document"),
           page_content |-> "x", metadata |-> m] : m \in {<<>>, [score |-> 9]}}
    \cup {[id_ |-> Str("b"), type_ |-> Str("Document"), page_content |-> "y",
           metadata |-> [source |-> "s"]]}

NodeEntities ==
    {[id_ |-> Str("n1"), embedding |-> Embedding1, relationships |-> <<>>,
      text |-> "x"],
     [id_ |-> Str("n1"), embedding |-> Embedding1, relationships |-> <<>>,
      text |-> "x", metadata |-> [score |-> 9]],
     [id_ |-> Str("n2"), text |-> "y", metadata |-> [source |-> "s"]]}

Distances == {1, 2}

Hits ==
    {[entity |-> e, distance |-> d] :
        e \in PlainEntities \cup NodeEntities, d \in Distances}

----------------------------------------------------------------------------
(* The record mapper: SpecMapper *)

Idle == [op |-> "idle"]

InitMapper ==
    /\ cfg = DefaultConfig
    /\ existing = <<>>
    /\ call = Idle
    /\ ret = Returned(<<>>)
    /\ log = <<>>
    /\ batch = <<>>
    /\ hits = <<>>
    /\ uuidNext = 0
    /\ models = <<>>
    /\ threads = <<>>
    /\ lock = <<>>

\* the caller puts one more document into the list it will pass
AddDocument ==
    \E document \in Documents :
        /\ call = Idle
        /\ hits = <<>>
        /\ Len(batch) < MaxBatch
        /\ batch' = Append(batch, document)
        /\ UNCHANGED <<models, threads, lock, cfg, existing, call, ret, log, hits, uuidNext>>

\* the caller puts one more search hit into the list it will pass
AddHit ==
    \E hit \in Hits :
        /\ call = Idle
        /\ batch = <<>>
        /\ Len(hits) < MaxBatch
        /\ hits' = Append(hits, hit)
        /\ UNCHANGED <<models, threads, lock, cfg, existing, call, ret, log, batch, uuidNext>>

ConvertUpsertData ==
    /\ call = Idle
    /\ hits = <<>>
    /\ uuidNext + Len(batch) <= MaxUuid
    /\ LET run == _convert_upsert_data(batch, uuidNext)
       IN  /\ call' = [op |-> "_convert_upsert_data", documents |-> batch,
                       uuidBefore |-> uuidNext]
           /\ ret' = run.out
           /\ batch' = run.documents
           /\ uuidNext' = run.uuidNext
    /\ UNCHANGED <<models, threads, lock, cfg, existing, log, hits>>

ConvertResponseToNodeWithScore ==
    \E remove_embedding \in BOOLEAN :
        /\ call = Idle
        /\ batch = <<>>
        /\ LET run == _convert_response_to_node_with_score(hits, remove_embedding)
           IN  /\ call' = [op |-> "_convert_response_to_node_with_score",
                           responses |-> hits,
                           remove_embedding |-> remove_embedding]
               /\ ret' = run.out
               /\ hits' = run.responses
        /\ UNCHANGED <<models, threads, lock, cfg, existing, log, batch, uuidNext>>

ConvertResponseToDocument ==
    \E remove_embedding \in BOOLEAN :
        /\ call = Idle
        /\ batch = <<>>
        /\ LET run == _convert_response_to_document(hits, remove_embedding)
           IN  /\ call' = [op |-> "_convert_response_to_document",
                           responses |-> hits,
                           remove_embedding |-> remove_embedding]
               /\ ret' = run.out
               /\ hits' = run.responses
        /\ UNCHANGED <<models, threads, lock, cfg, existing, log, batch, uuidNext>>

\* the records of the batch come back as search hits, at distances
\* first, first + 1, ..., and are converted by the converter of the batch's
\* shape
RoundTripRun(documents, n, first) ==
    LET run == _convert_upsert_data(documents, n)
        records == run.out.value
        responses == [i \in 1 .. Len(records) |->
                         [entity |-> records[i], distance |-> first + i - 1]]
        back == IF IsBaseNode(documents[1])
                THEN _convert_response_to_node_with_score(responses, TRUE)
                ELSE _convert_response_to_document(responses, TRUE)
    IN  IF run.out.raised # "none"
        THEN [out |-> run.out, documents |-> run.documents,
              uuidNext |-> run.uuidNext]
        ELSE [out |-> back.out, documents |-> run.documents,
              uuidNext |-> run.uuidNext]

RoundTrip ==
    \E first \in Distances :
        /\ call = Idle
        /\ hits = <<>>
        /\ uuidNext + Len(batch) <= MaxUuid
        /\ LET run == RoundTripRun(batch, uuidNext, first)
           IN  /\ call' = [op |-> "round_trip", documents |-> batch,
                           first |-> first]
               /\ ret' = run.out
               /\ batch' = run.documents
               /\ uuidNext' = run.uuidNext
        /\ UNCHANGED <<models, threads, lock, cfg, existing, log, hits>>

\* the caller drops its lists and starts over
NewLists ==
    /\ call # Idle
    /\ call' = Idle
    /\ ret' = Returned(<<>>)
    /\ batch' = <<>>
    /\ hits' = <<>>
    /\ UNCHANGED <<models, threads, lock, cfg, existing, log, uuidNext>>

NextMapper ==
    \/ AddDocument
    \/ AddHit
    \/ ConvertUpsertData
    \/ ConvertResponseToNodeWithScore
    \/ ConvertResponseToDocument
    \/ RoundTrip
    \/ NewLists

SpecMapper == InitMapper /\ [][NextMapper]_vars

----------------------------------------------------------------------------
(* _embed_texts, called by concurrent callers: SpecEmbed *)

\* The method is static and touches nothing but its arguments; the model
\* object is the caller's.  A caller runs the method statement by statement
\* (lines 70, 72, 73, 75 or 78) and another caller may run in between.

Callers == {"caller1", "caller2"}
Instances == {"model1", "model2"}
Families == {"BaseEmbedding", "Embeddings"}

\* a llama-index BaseEmbedding before any call, with the two attributes the
\* method assigns, and a langchain Embeddings, which has neither
NewBaseEmbedding ==
    [family |-> "BaseEmbedding", num_workers |-> PyNone,
     embed_batch_size |-> PyNone]
NewEmbeddings == [family |-> "Embeddings"]
NewModel(family) ==
    IF family = "BaseEmbedding" THEN NewBaseEmbedding ELSE NewEmbeddings

\* line 70: isinstance(embedding_model, BaseEmbedding)
IsBaseEmbedding(embedding_model) == embedding_model.family = "BaseEmbedding"

\* line 72: embedding_model.num_workers = num_workers
SetNumWorkers(embedding_model, num_workers) ==
    Update(embedding_model, "num_workers", PyInt(num_workers))

SetEmbedBatchSizeOnWorkers(embedding_model, batch_size) ==
    Update(embedding_model, "num_workers", PyInt(batch_size))

\* line 73: embedding_model.embed_batch_size = batch_size
SetEmbedBatchSize(embedding_model, batch_size) ==
    Update(embedding_model, "embed_batch_size", PyInt(batch_size))

\* line 75: what get_text_embedding_batch is invoked with and finds on the
\* model object it is invoked on
get_text_embedding_batch(embedding_model, texts, show_progress) ==
    [method |-> "get_text_embedding_batch", texts |-> texts,
     show_progress |-> show_progress,
     num_workers |-> embedding_model.num_workers,
     embed_batch_size |-> embedding_model.embed_batch_size]

\* line 78: what embed_documents is invoked with
embed_documents(embedding_model, texts) ==
    [method |-> "embed_documents", texts |-> texts]

\* the backend returns one vector per text
Embeddings(texts) == [i \in 1 .. Len(texts) |-> Embedding1.v]

NotInvoked == [method |-> "none"]

BatchSizes == {8, 16}
WorkerCounts == {1, 2}
TextLists == {<<"a">>, <<"a", "b">>}

\* a caller that has not called yet
NewThread(instance) ==
    [pc |-> "idle", embedding_model |-> instance, texts |-> <<>>,
     batch_size |-> 8, num_workers |-> 1, show_progress |-> TRUE,
     invoked |-> NotInvoked, out |-> Returned(<<>>)]

InitEmbed ==
    /\ cfg = DefaultConfig
    /\ existing = <<>>
    /\ call = Idle
    /\ ret = Returned(<<>>)
    /\ log = <<>>
    /\ batch = <<>>
    /\ hits = <<>>
    /\ uuidNext = 0
    /\ models \in {[i \in Instances |-> NewModel(f[i])] :
                     f \in [Instances -> Families]}
    /\ threads \in {[c \in Callers |-> NewThread(own[c])] :
                      own \in [Callers -> Instances]}
    /\ lock \in {[used |-> u, holder |-> [i \in Instances |-> "nobody"]] :
                   u \in BOOLEAN}

\* a caller enters _embed_texts with its arguments; callers that serialize
\* wait until nobody is inside a call on the same instance
EmbedTexts(c) ==
    \E texts \in TextLists, batch_size \in BatchSizes,
       num_workers \in WorkerCounts :
        LET instance == threads[c].embedding_model
        IN  /\ threads[c].pc = "idle"
            /\ lock.used => lock.holder[instance] = "nobody"
            /\ threads' = [threads EXCEPT ![c] =
                   [@ EXCEPT !.pc = "line70", !.texts = texts,
                             !.batch_size = batch_size,
                             !.num_workers = num_workers,
                             !.invoked = NotInvoked,
                             !.out = Returned(<<>>)]]
            /\ lock' = IF lock.used
                       THEN [lock EXCEPT !.holder[instance] = c]
                       ELSE lock
            /\ UNCHANGED <<models, cfg, existing, call, ret, log, batch, hits, uuidNext>>

\* line 70
CheckFamily(c) ==
    /\ threads[c].pc = "line70"
    /\ threads' = [threads EXCEPT ![c].pc =
           IF IsBaseEmbedding(models[threads[c].embedding_model])
           THEN "line72" ELSE "line78"]
    /\ UNCHANGED <<models, lock, cfg, existing, call, ret, log, batch, hits, uuidNext>>

\* line 72
AssignNumWorkers(c) ==
    /\ threads[c].pc = "line72"
    /\ models' = [models EXCEPT ![threads[c].embedding_model] =
                     SetNumWorkers(@, threads[c].num_workers)]
    /\ threads' = [threads EXCEPT ![c].pc = "line73"]
    /\ UNCHANGED <<lock, cfg, existing, call, ret, log, batch, hits, uuidNext>>

\* line 73
AssignEmbedBatchSize(c) ==
    /\ threads[c].pc = "line73"
    /\ models' = [models EXCEPT ![threads[c].embedding_model] =
                     SetEmbedBatchSize(@, threads[c].batch_size)]
    /\ threads' = [threads EXCEPT ![c].pc = "line75"]
    /\ UNCHANGED <<lock, cfg, existing, call, ret, log, batch, hits, uuidNext>>

\* lines 75-76: the backend is invoked and its result returned
GetTextEmbeddingBatch(c) ==
    /\ threads[c].pc = "line75"
    /\ threads' = [threads EXCEPT ![c] =
           [@ EXCEPT !.pc = "return",
                     !.invoked = get_text_embedding_batch(
                                     models[threads[c].embedding_model],
                                     threads[c].texts, threads[c].show_progress),
                     !.out = Returned(Embeddings(threads[c].texts))]]
    /\ UNCHANGED <<models, lock, cfg, existing, call, ret, log, batch, hits, uuidNext>>

\* line 78
EmbedDocuments(c) ==
    /\ threads[c].pc = "line78"
    /\ threads' = [threads EXCEPT ![c] =
           [@ EXCEPT !.pc = "return",
                     !.invoked = embed_documents(
                                     models[threads[c].embedding_model],
                                     threads[c].texts),
                     !.out = Returned(Embeddings(threads[c].texts))]]
    /\ UNCHANGED <<models, lock, cfg, existing, call, ret, log, batch, hits, uuidNext>>

\* the caller has the result; a caller that serializes lets the next one in
EmbedReturn(c) ==
    /\ threads[c].pc = "return"
    /\ threads' = [threads EXCEPT ![c].pc = "idle"]
    /\ lock' = IF lock.used
               THEN [lock EXCEPT !.holder[threads[c].embedding_model] = "nobody"]
               ELSE lock
    /\ UNCHANGED <<models, cfg, existing, call, ret, log, batch, hits, uuidNext>>

NextEmbed ==
    \E c \in Callers :
        \/ EmbedTexts(c)
        \/ CheckFamily(c)
        \/ AssignNumWorkers(c)
        \/ AssignEmbedBatchSize(c)
        \/ GetTextEmbeddingBatch(c)
        \/ EmbedDocuments(c)
        \/ EmbedReturn(c)

SpecEmbed == InitEmbed /\ [][NextEmbed]_vars



----------------------------------------------------------------------------
(* Claims about the schema builder *)

DenseDataTypes ==
    {"DataType.FLOAT_VECTOR", "DataType.FLOAT16_VECTOR", "DataType.BFLOAT16_VECTOR"}

SupportedShape(document_type) ==
    EndsWith(document_type, NodeSuffix) \/ document_type = DocumentType

\* C1: for every supported document shape, recognized vector datatype,
\* dimension and sparse flag, the schema _setup_collection_schema returns has
\* the string primary key as its first field and the dense vector as its
\* second field, exactly one dense-vector field, and a sparse-vector field
\* if and only if enable_sparse.
C1_SchemaLayout ==
    (/\ call.op = "_setup_collection_schema"
     /\ SupportedShape(call.document_type)
     /\ call.dense_datatype \in RecognizedDatatypes)
    => /\ ret.raised = "none" /\ ret.returned
       /\ Len(ret.value) >= 2
       /\ ret.value[1].field_name = "id_"
       /\ ret.value[1].is_primary
       /\ ret.value[1].datatype = "DataType.VARCHAR"
       /\ ret.value[2].field_name = "embedding"
       /\ ret.value[2].datatype \in DenseDataTypes
       /\ ret.value[2].dim = call.vector_dims
       /\ Cardinality({i \in 1 .. Len(ret.value) :
                          ret.value[i].datatype \in DenseDataTypes}) = 1
       /\ Cardinality({i \in 1 .. Len(ret.value) : ret.value[i].is_primary}) = 1
       /\ (\E i \in 1 .. Len(ret.value) :
              ret.value[i].datatype = "DataType.SPARSE_FLOAT_VECTOR")
          <=> call.enable_sparse

C1_Witness ==
    /\ call.op = "_setup_collection_schema"
    /\ call.document_type = DocumentType
    /\ call.dense_datatype = "BFLOAT16_VECTOR"
    /\ call.enable_sparse
    /\ ret.returned
    /\ Len(ret.value) = 6

\* C2: for every vector datatype outside the three recognized encodings, and
\* every shape, dimension and sparse flag, _setup_collection_schema raises the
\* ValueError of _get_datatype and returns no schema at all; for each of the
\* three recognized encodings it does not raise.
C2_InvalidDatatype ==
    call.op = "_setup_collection_schema"
    => IF call.dense_datatype \in RecognizedDatatypes
       THEN ret.raised = "none" /\ ret.returned
       ELSE /\ ret.raised = "ValueError"
            /\ ret.msg = "not compatible with dense vector field"
            /\ ~ret.returned
            /\ ret.value = <<>>

C2_Witness ==
    /\ call.op = "_setup_collection_schema"
    /\ call.dense_datatype = "SPARSE_FLOAT_VECTOR"
    /\ call.enable_sparse
    /\ ret.raised = "ValueError"

----------------------------------------------------------------------------
(* Claims about the index planner *)

\* C3: for every index algorithm, dense metric, tuning parameters and sparse
\* index type, the plan _setup_collection_index returns holds the primary-key
\* index and the dense index with the requested metric, holds a sparse index
\* if and only if enable_sparse, and every sparse index it holds has metric IP.
C3_IndexPlan ==
    call.op = "_setup_collection_index"
    => LET plan == ret.value
           on(field) == {i \in 1 .. Len(plan) : plan[i].field_name = field}
       IN  /\ ret.raised = "none"
           /\ Cardinality(on("id_")) = 1
           /\ Cardinality(on("embedding")) = 1
           /\ \A i \in on("embedding") :
                 /\ plan[i].metric_type = call.dense_search_metric
                 /\ plan[i].index_type = call.index_algo
           /\ (on("sparse_embedding") # {}) <=> call.enable_sparse
           /\ \A i \in on("sparse_embedding") : plan[i].metric_type = "IP"
           /\ Len(plan) = IF call.enable_sparse THEN 3 ELSE 2

C3_Witness ==
    /\ call.op = "_setup_collection_index"
    /\ call.enable_sparse
    /\ call.dense_search_metric = "L2"
    /\ Len(ret.value) = 3
    /\ ret.value[3].metric_type = "IP"

----------------------------------------------------------------------------
(* Claims about _verify_collection_dimension *)

\* the positions of the fields that carry the dense-vector field name
DensePositions(stats) ==
    IF "fields" \in DOMAIN stats
    THEN {i \in 1 .. Len(stats.fields) : stats.fields[i].name = "embedding"}
    ELSE {}

\* the field the code looks at: the first one with that name
DenseOf(stats) ==
    stats.fields[CHOOSE i \in DensePositions(stats) :
                    \A j \in DensePositions(stats) : i <= j]

\* the dense field declares an integer dimension
DeclaresIntDim(stats) ==
    /\ DensePositions(stats) # {}
    /\ "params" \in DOMAIN DenseOf(stats)
    /\ "dim" \in DOMAIN DenseOf(stats).params
    /\ DenseOf(stats).params.dim.t = "int"

SchemaInconsistencyMsgs ==
    {"Fields not existed in collection", "Empty embedding field!",
     "Empty params field!", "Empty dim field!", "Collection dims must be integer!"}

\* C6: when the described collection's dense field declares an integer
\* dimension d, _verify_collection_dimension raises the dimension-mismatch
\* ValueError if embedding_dimension differs from d and returns normally if
\* it equals d.
C6_DimensionMismatch ==
    (/\ call.op = "_verify_collection_dimension"
     /\ call.described
     /\ DeclaresIntDim(call.stats))
    => IF call.embedding_dimension = DenseOf(call.stats).params.dim.n
       THEN ret.raised = "none" /\ ret.returned
       ELSE /\ ret.raised = "ValueError"
            /\ ret.msg = "Embed dimension is differ"
            /\ ~ret.returned

C6_Witness ==
    /\ call.op = "_verify_collection_dimension"
    /\ call.described
    /\ DeclaresIntDim(call.stats)
    /\ call.embedding_dimension > DenseOf(call.stats).params.dim.n
    /\ ret.msg = "Embed dimension is differ"

----------------------------------------------------------------------------
(* Claims about _create_partition *)

CreatePartitionCall ==
    ClientCall("create_partition", cfg.collection_name, call.partition_name,
               <<>>, <<>>)

LoadStateCall ==
    ClientCall("get_load_state", cfg.collection_name, "", <<>>, <<>>)

\* C8, as claimed: with an empty name _create_partition raises the
\* AssertionError before any client call; with a non-empty name it issues
\* create_partition for the configured collection, then get_load_state for
\* the whole collection, and returns that load state without raising.
C8_AsClaimed ==
    call.op = "_create_partition"
    => IF call.partition_name = ""
       THEN ret.raised = "AssertionError" /\ ~ret.returned /\ log = <<>>
       ELSE /\ log = <<CreatePartitionCall, LoadStateCall>>
            /\ ret = Returned([state |-> "Loaded"])

\* C8, amended: with an empty name as above; with a non-empty name the first
\* call is create_partition for the configured collection; if the engine
\* serves it, get_load_state for the whole collection follows and, if served,
\* its answer is returned; an error of the engine is the only thing raised,
\* and it ends the invocation at the call that raised it.
C8_CreatePartition ==
    call.op = "_create_partition"
    => IF call.partition_name = ""
       THEN ret.raised = "AssertionError" /\ ~ret.returned /\ log = <<>>
       ELSE /\ Len(log) >= 1 /\ log[1] = CreatePartitionCall
            /\ ret.raised \in {"none", "MilvusException"}
            /\ IF ~(call.existed /\ call.accept1)
               THEN ret = EngineError /\ log = <<CreatePartitionCall>>
               ELSE /\ log = <<CreatePartitionCall, LoadStateCall>>
                    /\ call.partition_name \in existing[cfg.collection_name].partitions
                    /\ IF call.accept2
                       THEN ret = Returned([state |-> "Loaded"])
                       ELSE ret = EngineError

C8_Witness ==
    /\ call.op = "_create_partition"
    /\ call.partition_name = "docs_2024"
    /\ log = <<CreatePartitionCall, LoadStateCall>>
    /\ ret = Returned([state |-> "Loaded"])

----------------------------------------------------------------------------
(* Claims about _create_collection *)

\* C9: an invocation of _create_collection issues at most one
\* create_collection call and no call that checks existence; that call
\* carries the complete schema and index plan; get_load_state is called only
\* after create_collection succeeded.  If the schema cannot be built, or the
\* engine rejects the call, that error is the outcome, nothing is returned,
\* and no further call is made.
C9_CreateCollection ==
    call.op = "_create_collection"
    => LET at(m) == {i \in 1 .. Len(log) : log[i].method = m}
           schemaFails == cfg.dense_datatype \notin RecognizedDatatypes
           rejected == call.existed \/ ~call.accept1
       IN  /\ Cardinality(at("create_collection")) <= 1
           /\ \A i \in 1 .. Len(log) :
                 log[i].method \in {"create_schema", "prepare_index_params",
                                    "create_collection", "get_load_state"}
           /\ \A i \in at("create_collection") :
                 /\ i = 3
                 /\ log[1].method = "create_schema"
                 /\ log[2].method = "prepare_index_params"
                 /\ log[i].collection_name = cfg.collection_name
                 /\ Len(log[i].schema) =
                        (IF call.enable_sparse THEN 4 ELSE 3)
                        + (IF call.document_type = DocumentType THEN 2 ELSE 12)
                 /\ Len(log[i].index_params) = IF call.enable_sparse THEN 3 ELSE 2
           /\ \A j \in at("get_load_state") :
                 /\ ~schemaFails /\ ~rejected
                 /\ j = 4 /\ at("create_collection") = {3}
                 /\ log[j].collection_name = cfg.collection_name
           /\ schemaFails
              => /\ ret.raised = "ValueError" /\ ~ret.returned
                 /\ at("create_collection") = {} /\ at("get_load_state") = {}
           /\ (~schemaFails /\ rejected)
              => /\ ret = EngineError /\ ~ret.returned
                 /\ at("create_collection") = {3} /\ Len(log) = 3
           /\ (~schemaFails /\ ~rejected)
              => /\ Len(log) = 4
                 /\ ret = IF call.accept2 THEN Returned([state |-> "Loaded"])
                          ELSE EngineError

C9_Witness ==
    /\ call.op = "_create_collection"
    /\ call.existed
    /\ call.accept1
    /\ cfg.dense_datatype = "FLOAT_VECTOR"
    /\ ret = EngineError
    /\ Len(log) = 3


----------------------------------------------------------------------------
(* Claims about the record mapper *)

AllOfClass(documents, cls) ==
    \A i \in 1 .. Len(documents) : documents[i].cls = cls

WithoutKeys(d, keys) == [k \in DOMAIN d \ keys |-> d[k]]

\* what C4 says of the records made from a batch of langchain Documents
PlainRecordsAsClaimed ==
    /\ ret.raised = "none" /\ ret.returned
    /\ Len(ret.value) = Len(call.documents)
    /\ \A i \in 1 .. Len(call.documents) :
          LET document == call.documents[i]
              record == ret.value[i]
          IN  /\ "id_" \in DOMAIN record
              /\ ~record.id_.isNone
              /\ ~document.id.isNone => record.id_ = document.id
              /\ document.id.isNone
                 => /\ record.id_.s = "uuid4"
                    /\ record.id_.serial > call.uuidBefore
              /\ record.page_content = document.page_content
              /\ record.metadata = document.metadata
    /\ \A i, j \in 1 .. Len(call.documents) :
          (/\ i # j
           /\ call.documents[i].id.isNone
           /\ call.documents[j].id.isNone)
          => ret.value[i].id_ # ret.value[j].id_

\* C4, as claimed: for every batch of langchain Documents,
\* _convert_upsert_data returns one record per document, in order; a document
\* with an identifier keeps it as primary key, a document without one gets a
\* fresh identifier, and the fresh identifiers of a batch differ pairwise.
C4_AsClaimed ==
    (/\ call.op = "_convert_upsert_data"
     /\ AllOfClass(call.documents, "Document"))
    => PlainRecordsAsClaimed

\* C4, amended: the same for every batch that holds at least one document
\* (on an empty list the code raises IndexError at documents[0]).
C4_PlainIdentifiers ==
    (/\ call.op = "_convert_upsert_data"
     /\ Len(call.documents) > 0
     /\ AllOfClass(call.documents, "Document"))
    => PlainRecordsAsClaimed

C4_Witness ==
    /\ call.op = "_convert_upsert_data"
    /\ Len(call.documents) = 2
    /\ AllOfClass(call.documents, "Document")
    /\ call.documents[1].id.isNone
    /\ call.documents[2].id.isNone
    /\ call.uuidBefore > 0
    /\ ret.returned
    /\ ret.value[1].id_ # ret.value[2].id_

\* body text and metadata of a document and of what the converters return
BodyOf(x) ==
    IF "node" \in DOMAIN x THEN x.node.text
    ELSE IF x.cls = "TextNode" THEN x.text ELSE x.page_content

MetadataOf(x) == IF "node" \in DOMAIN x THEN x.node.metadata ELSE x.metadata

SameShape(documents) ==
    AllOfClass(documents, "TextNode") \/ AllOfClass(documents, "Document")

C10_AsClaimed ==
    /\ call.op = "_convert_response_to_node_with_score"
       => /\ ret.raised = "none" /\ ret.returned
          /\ Len(ret.value) = Len(call.responses)
          /\ \A i \in 1 .. Len(call.responses) :
                /\ ret.value[i].score = call.responses[i].distance
                /\ ret.value[i].node.id_ = call.responses[i].entity.id_
    /\ (/\ call.op = "_convert_response_to_document"
        /\ \A i \in 1 .. Len(call.responses) :
              "page_content" \in DOMAIN call.responses[i].entity)
       => /\ ret.raised = "none" /\ ret.returned
          /\ Len(ret.value) = Len(call.responses)
          /\ \A i \in 1 .. Len(call.responses) :
                /\ ret.value[i].page_content
                   = call.responses[i].entity.page_content
                /\ "score" \in DOMAIN ret.value[i].metadata
                /\ ret.value[i].metadata.score = call.responses[i].distance

\* the classes of the two supported shapes
SupportedClasses == {"TextNode", "Document"}

\* C11: _convert_upsert_data rejects every batch that holds an object which
\* is neither a BaseNode nor a langchain Document, wherever in the batch the
\* object stands: the call raises, whatever the exception, and returns no
\* records, so that no such object passes through one of the two branches.
C11_AsClaimed ==
    (/\ call.op = "_convert_upsert_data"
     /\ \E i \in 1 .. Len(call.documents) :
           call.documents[i].cls \notin SupportedClasses)
    => /\ ret.raised # "none"
       /\ ~ret.returned

\* C12: for every batch of nodes, every record _convert_upsert_data returns
\* has a null embedding, has no file_path entry in its metadata whenever the
\* node's metadata had that key, whatever the value, the empty one included,
\* and has empty metadata on every relationship; the other metadata entries
\* and the relationships' links are those of the node.
C12_AsClaimed ==
    (/\ call.op = "_convert_upsert_data"
     /\ AllOfClass(call.documents, "TextNode")
     /\ ret.returned)
    => /\ Len(ret.value) = Len(call.documents)
       /\ \A i \in 1 .. Len(call.documents) :
             LET node == call.documents[i]
                 record == ret.value[i]
             IN  /\ record.embedding = NoneVec
                 /\ "file_path" \in DOMAIN node.metadata
                    => "file_path" \notin DOMAIN record.metadata
                 /\ WithoutKeys(record.metadata, {"file_path"})
                    = WithoutKeys(node.metadata, {"file_path"})
                 /\ DOMAIN record.relationships = DOMAIN node.relationships
                 /\ \A k \in DOMAIN node.relationships :
                       /\ record.relationships[k].metadata = <<>>
                       /\ record.relationships[k].node_id
                          = node.relationships[k].node_id

----------------------------------------------------------------------------
(* Claims about _embed_texts *)

\* the backend invocation of caller c found on the model object the
\* num_workers and batch_size of the call that issued it
SawOwnValues(c) ==
    /\ threads[c].invoked.num_workers = PyInt(threads[c].num_workers)
    /\ threads[c].invoked.embed_batch_size = PyInt(threads[c].batch_size)

\* no other caller uses the instance of caller c
OwnInstance(c) ==
    \A d \in Callers \ {c} :
        threads[d].embedding_model # threads[c].embedding_model

\* C13: for a BaseEmbedding, _embed_texts assigns its num_workers and
\* batch_size to the caller's model object before it invokes
\* get_text_embedding_batch, and nothing else is shared between calls: when
\* the callers serialize their calls on an instance, or each caller has its
\* own instance, every invocation finds on the model the values of the call
\* that issued it (callers that share an instance without serializing can
\* find the other call's values: C13_Witness); a langchain Embeddings object
\* is never assigned to, and is invoked through embed_documents with the
\* texts alone.
C13_EmbedTexts ==
    /\ \A c \in Callers :
          LET model == models[threads[c].embedding_model]
              invoked == threads[c].invoked
          IN  /\ invoked.method = "get_text_embedding_batch"
                 => /\ IsBaseEmbedding(model)
                    /\ invoked.texts = threads[c].texts
                    /\ invoked.show_progress = threads[c].show_progress
                    /\ IsInt(invoked.num_workers)
                    /\ IsInt(invoked.embed_batch_size)
                    /\ (lock.used \/ OwnInstance(c)) => SawOwnValues(c)
              /\ invoked.method = "embed_documents"
                 => /\ ~IsBaseEmbedding(model)
                    /\ invoked.texts = threads[c].texts
              /\ threads[c].pc = "return"
                 => /\ invoked # NotInvoked
                    /\ Len(threads[c].out.value) = Len(threads[c].texts)
    /\ \A i \in Instances :
          ~IsBaseEmbedding(models[i]) => models[i] = NewEmbeddings

\* two callers share a BaseEmbedding without serializing, and the invocation
\* of the first found the batch size of the second's call, which is still
\* under way, in place of its own
C13_Witness ==
    /\ ~lock.used
    /\ threads["caller1"].embedding_model = threads["caller2"].embedding_model
    /\ threads["caller1"].pc = "return"
    /\ threads["caller1"].invoked.method = "get_text_embedding_batch"
    /\ threads["caller1"].batch_size # threads["caller2"].batch_size
    /\ threads["caller1"].invoked.embed_batch_size
       = PyInt(threads["caller2"].batch_size)
    /\ threads["caller1"].invoked.num_workers
       = PyInt(threads["caller1"].num_workers)
    /\ threads["caller2"].pc = "line75"

====
